---- MODULE Spec2Model ----
(***************************************************************************)
(* PingThing: the incident store (src/src/database.ts) and the network     *)
(* monitor (src/unnamed/part_002, second NetworkMonitor definition): its   *)
(* per-host check, its check cycle and its start() and stop(), with the    *)
(* probe and trace collaborators of src/src/report.ts; the configuration   *)
(* resolver (src/unnamed/part_001), the query facade (src/src/api.ts) and  *)
(* the resolution step of the first NetworkMonitor definition.             *)
(*                                                                         *)
(* Optional JavaScript values (undefined) and nullable SQL columns (NULL)  *)
(* are modelled as tuples of length at most one: <<>> is undefined / NULL  *)
(* and <<v>> is the value v.  SQLite booleans are the integers 0 and 1.    *)
(* TEXT columns are sequences of tokens (strings).                         *)
(***************************************************************************)
EXTENDS Integers, Sequences, FiniteSets, TLC

VARIABLES rows, seq, now, check, ret, saved, monitor

vars == <<rows, seq, now, check, ret, saved, monitor>>

----------------------------------------------------------------------------
(* Bounds of the model *)

MaxTime == 1

MaxRows == 2

MaxIds == MaxRows + 1

MaxStoreRows == 3

MaxStoreIds == MaxStoreRows + 1

MaxLimit == 3

MaxWindowRows == 11

MaxWindowApiIds == 3

MaxHops == 2

MaxCycles == 2

MaxCalls == 2

MaxRetries == 3

----------------------------------------------------------------------------
(* JavaScript / SQL value helpers *)

NULL == <<>>

Undefined == <<>>

Some(v) == <<v>>

Min(a, b) == IF a < b THEN a ELSE b

\* JavaScript truthiness per type, then `x || null` as it is bound to a column.
TruthyBool(b) == b = TRUE

TruthyNum(n) == n # 0

TruthyStr(s) == s # ""

OptBoolOrNull(o) == IF o # Undefined /\ TruthyBool(o[1]) THEN Some(1) ELSE NULL

OptNumOrNull(o) == IF o # Undefined /\ TruthyNum(o[1]) THEN o ELSE NULL

OptStrOrNull(o) == IF o # Undefined /\ TruthyStr(o[1]) THEN o ELSE NULL

\* A JavaScript boolean bound as a SQLite parameter.
SqlBool(b) == IF b THEN 1 ELSE 0

\* Boolean(x) of a value read from a BOOLEAN column holding 0 or 1.
Boolean(x) == x # 0

\* Boolean(x) of a value read from a nullable BOOLEAN column.
BooleanOfNullable(o) == o # NULL /\ o[1] # 0

\* Date.prototype.toISOString: a fixed-width digit string, most significant
\* digit first; TEXT comparison of two such strings is lexicographic.
toISOString(t) == <<t \div 10, t % 10>>

\* new Date(isoString)
NewDate(s) == s[1] * 10 + s[2]

\* SQLite TEXT comparison a > b of two timestamp strings (BINARY collation).
TextGreater(a, b) == a[1] > b[1] \/ (a[1] = b[1] /\ a[2] > b[2])

----------------------------------------------------------------------------
(* JSON.stringify / JSON.parse of the hop array *)

HopKeys == <<"hop", "ip", "hostname", "responseTime", "timeout">>

Digits == <<"0", "1", "2", "3", "4", "5", "6", "7", "8", "9">>

NumText(n) == Digits[n + 1]

TextNum(s) == CHOOSE n \in 0..9 : Digits[n + 1] = s

\* The JSON text of one member value: numbers and booleans as literals,
\* strings as themselves.
ValueText(k, v) ==
    IF k \in {"hop", "responseTime"} THEN NumText(v)
    ELSE IF k = "timeout" THEN (IF v THEN "true" ELSE "false")
    ELSE v

TextValue(k, s) ==
    IF k \in {"hop", "responseTime"} THEN TextNum(s)
    ELSE IF k = "timeout" THEN s = "true"
    ELSE s

\* The members of a hop object from key index i on: a key whose value is
\* undefined is omitted.
RECURSIVE HopMembers(_, _)
HopMembers(h, i) ==
    IF i > Len(HopKeys) THEN <<>>
    ELSE LET k == HopKeys[i]
         IN  (IF h[k] = Undefined THEN <<>> ELSE <<k, ValueText(k, h[k][1])>>)
             \o HopMembers(h, i + 1)

\* A serialisation that drops every falsy member, `timeout: false` included.
StringifyHopDroppingFalse(h) ==
    <<"{">> \o HopMembers([h EXCEPT !.timeout = IF @ = Some(FALSE) THEN Undefined ELSE @], 1)
    \o <<"}">>

StringifyHop(h) == <<"{">> \o HopMembers(h, 1) \o <<"}">>

RECURSIVE StringifyHops(_)
StringifyHops(hops) ==
    IF hops = <<>> THEN <<>>
    ELSE StringifyHop(Head(hops)) \o StringifyHops(Tail(hops))

JSONstringify(hops) == <<"[">> \o StringifyHops(hops) \o <<"]">>

EmptyHop == [k \in {HopKeys[i] : i \in 1..Len(HopKeys)} |-> Undefined]

\* Parses the members of one object starting at token i; yields the object
\* and the index after its closing brace.
RECURSIVE ParseMembers(_, _, _)
ParseMembers(text, i, h) ==
    IF text[i] = "}" THEN [value |-> h, next |-> i + 1]
    ELSE LET k == text[i]
         IN  ParseMembers(text, i + 2,
                          [h EXCEPT ![k] = Some(TextValue(k, text[i + 1]))])

RECURSIVE ParseElements(_, _, _)
ParseElements(text, i, acc) ==
    IF text[i] = "]" THEN acc
    ELSE LET m == ParseMembers(text, i + 1, EmptyHop)
         IN  ParseElements(text, m.next, Append(acc, m.value))

JSONparse(text) == ParseElements(text, 2, <<>>)

----------------------------------------------------------------------------
(* IncidentDatabase: rows is the incidents table in rowid order, seq the    *)
(* AUTOINCREMENT counter (the largest id ever assigned).                   *)

\* The column values saveIncident binds for an incident.
NewIncident(incident) ==
    [host               |-> incident.host,
     timestamp          |-> toISOString(incident.timestamp),
     resolved           |-> SqlBool(incident.resolved),
     ping_success       |-> SqlBool(incident.pingResult.success),
     ping_response_time |-> OptNumOrNull(incident.pingResult.responseTime),
     ping_error         |-> OptStrOrNull(incident.pingResult.error),
     traceroute_success |-> IF incident.tracerouteResult = Undefined THEN NULL
                            ELSE OptBoolOrNull(Some(incident.tracerouteResult[1].success)),
     traceroute_error   |-> IF incident.tracerouteResult = Undefined THEN NULL
                            ELSE OptStrOrNull(incident.tracerouteResult[1].error),
     traceroute_hops    |-> IF incident.tracerouteResult # Undefined
                            THEN Some(JSONstringify(incident.tracerouteResult[1].hops))
                            ELSE NULL]

\* INTEGER PRIMARY KEY without AUTOINCREMENT: one more than the largest id
\* now in the table.
NextRowIdWithoutAutoincrement(rs, s) ==
    IF rs = <<>> THEN 1
    ELSE 1 + (CHOOSE m \in {rs[i].id : i \in 1..Len(rs)} :
                 \A i \in 1..Len(rs) : rs[i].id <= m)

\* INTEGER PRIMARY KEY AUTOINCREMENT: one more than the largest id ever
\* assigned to a row of the table, deleted rows included.
NextRowId(rs, s) == s + 1

\* An insert that is skipped while an incident of the host is still open.
InsertRowDeduplicated(rs, s, newIncident) ==
    IF \E i \in 1..Len(rs) : rs[i].host = newIncident.host /\ rs[i].resolved = 0
    THEN rs
    ELSE Append(rs, [id |-> s + 1] @@ newIncident)

InsertRow(rs, s, newIncident) ==
    Append(rs, [id |-> NextRowId(rs, s)] @@ newIncident)

mapRowToIncident(row) ==
    [id        |-> row.id,
     host      |-> row.host,
     timestamp |-> NewDate(row.timestamp),
     resolved  |-> Boolean(row.resolved),
     pingResult |->
        [host         |-> row.host,
         success      |-> Boolean(row.ping_success),
         responseTime |-> OptNumOrNull(row.ping_response_time),
         timestamp    |-> NewDate(row.timestamp),
         error        |-> OptStrOrNull(row.ping_error)],
     tracerouteResult |->
        IF row.traceroute_success # NULL
        THEN Some([host      |-> row.host,
                   success   |-> BooleanOfNullable(row.traceroute_success),
                   timestamp |-> NewDate(row.timestamp),
                   hops      |-> IF row.traceroute_hops # NULL /\ row.traceroute_hops[1] # <<>>
                                 THEN JSONparse(row.traceroute_hops[1])
                                 ELSE <<>>,
                   error     |-> OptStrOrNull(row.traceroute_error)])
        ELSE Undefined]

\* ORDER BY timestamp DESC over the rows at the positions in S: repeatedly
\* emit a row no other remaining row is greater than.  Rows with equal
\* timestamps come out in an order SQL leaves unspecified, so the result is
\* the set of the orders the engine may produce.
RECURSIVE OrderByTimestampDesc(_, _)
OrderByTimestampDesc(rs, S) ==
    IF S = {} THEN {<<>>}
    ELSE UNION {{<<i>> \o t : t \in OrderByTimestampDesc(rs, S \ {i})} :
                i \in {j \in S : \A k \in S :
                          ~TextGreater(rs[k].timestamp, rs[j].timestamp)}}

\* A query whose LIMIT clause was left out.
LimitIgnored(s, n) == s

\* A limit that lets one row too many through.
LimitOffByOne(s, n) == IF n < 0 THEN s ELSE SubSeq(s, 1, Min(n + 1, Len(s)))

\* LIMIT n: SQLite treats a negative limit as no limit.
Limit(s, n) == IF n < 0 THEN s ELSE SubSeq(s, 1, Min(n, Len(s)))

MapRows(rs, s) == [i \in 1..Len(s) |-> mapRowToIncident(rs[s[i]])]

getRecentIncidents(rs, limit) ==
    {MapRows(rs, Limit(o, limit)) : o \in OrderByTimestampDesc(rs, 1..Len(rs))}

\* The by-host query without its WHERE clause.
getIncidentsOfAnyHost(rs, host, limit) ==
    {MapRows(rs, Limit(o, limit)) : o \in OrderByTimestampDesc(rs, 1..Len(rs))}

\* A by-host query that takes its limit over the unresolved rows of the host.
getUnresolvedIncidentsByHost(rs, host, limit) ==
    {MapRows(rs, Limit(o, limit)) :
        o \in OrderByTimestampDesc(rs, {i \in 1..Len(rs) :
                                           rs[i].host = host /\ rs[i].resolved = SqlBool(FALSE)})}

getIncidentsByHost(rs, host, limit) ==
    {MapRows(rs, Limit(o, limit)) :
        o \in OrderByTimestampDesc(rs, {i \in 1..Len(rs) : rs[i].host = host})}

\* The unresolved query without its WHERE clause.
getUnresolvedIncludingResolved(rs) ==
    {MapRows(rs, o) : o \in OrderByTimestampDesc(rs, 1..Len(rs))}

getUnresolvedIncidents(rs) ==
    {MapRows(rs, o) :
        o \in OrderByTimestampDesc(rs, {i \in 1..Len(rs) : rs[i].resolved = SqlBool(FALSE)})}

getLatestIncident(rs) ==
    {IF s = <<>> THEN Undefined ELSE Some(mapRowToIncident(rs[s[1]])) :
        s \in {Limit(o, 1) : o \in OrderByTimestampDesc(rs, 1..Len(rs))}}

\* An update that flips the flag instead of setting it.
UpdateResolvedToggle(rs, id) ==
    [i \in 1..Len(rs) |->
        IF rs[i].id = id THEN [rs[i] EXCEPT !.resolved = 1 - @] ELSE rs[i]]

\* An UPDATE whose WHERE clause takes every row up to the identifier.
UpdateResolvedUpTo(rs, id) ==
    [i \in 1..Len(rs) |->
        IF rs[i].id <= id THEN [rs[i] EXCEPT !.resolved = SqlBool(TRUE)] ELSE rs[i]]

\* UPDATE incidents SET resolved = true WHERE id = ?
UpdateResolved(rs, id) ==
    [i \in 1..Len(rs) |->
        IF rs[i].id = id THEN [rs[i] EXCEPT !.resolved = SqlBool(TRUE)] ELSE rs[i]]

\* numUpdatedRows: the rows the WHERE clause matched (SQLite counts a matched
\* row as updated whether or not the stored value differs).
NumUpdatedRows(rs, id) == Cardinality({i \in 1..Len(rs) : rs[i].id = id})

\* A result that reports whether the stored flag actually changed.
markResultChangedOnly(rs, id) ==
    \E i \in 1..Len(rs) : rs[i].id = id /\ rs[i].resolved = 0

markIncidentResolvedResult(rs, id) ==
    IF NumUpdatedRows(rs, id) # 0 THEN NumUpdatedRows(rs, id) > 0 ELSE FALSE

\* DELETE FROM incidents: the AUTOINCREMENT counter is kept.
DeleteAll(rs) == <<>>

SeqAfterDeleteAll(s) == s

CountAll(rs) == Cardinality({i \in 1..Len(rs) : TRUE})

CountUnresolved(rs) ==
    Cardinality({i \in 1..Len(rs) : rs[i].resolved = SqlBool(FALSE)})

\* COUNT(host) without DISTINCT.
CountHostsNotDistinct(rs) == Cardinality({i \in 1..Len(rs) : TRUE})

CountDistinctHosts(rs) == Cardinality({rs[i].host : i \in 1..Len(rs)})

\* `Number(x?.count || 0)`
CountOrZero(n) == IF TruthyNum(n) THEN n ELSE 0

getStatistics(rs) ==
    [totalIncidents      |-> CountOrZero(CountAll(rs)),
     unresolvedIncidents |-> CountOrZero(CountUnresolved(rs)),
     hostsAffected       |-> CountOrZero(CountDistinctHosts(rs))]

ZeroStatistics == [totalIncidents |-> 0, unresolvedIncidents |-> 0, hostsAffected |-> 0]

\* getStatistics with its catch clause: a failure of the storage layer gives
\* zeroed statistics.
getStatisticsOrZeros(rs, fault) == IF fault THEN ZeroStatistics ELSE getStatistics(rs)

----------------------------------------------------------------------------
(* The Prober: ping / pingWithRetries and traceroute *)

\* The result of pingWithRetries: the first successful attempt, or the last
\* failed one.  The probe's own timestamp is not persisted and is left out.
pingWithRetries(host, ok) ==
    IF ok
    THEN [host |-> host, success |-> TRUE, responseTime |-> Some(5), error |-> Undefined]
    ELSE [host |-> host, success |-> FALSE, responseTime |-> Undefined,
          error |-> Some("ping failed")]

\* A hop as parseTracerouteOutput builds it: a `* * *` line gives a timed-out
\* hop with no other member, any other line a hop whose address, name and
\* time are present when the line shows them.
TimedOutHop(n) == [EmptyHop EXCEPT !.hop = Some(n), !.timeout = Some(TRUE)]

AnsweringHop(n, ip, responseTime) ==
    [EmptyHop EXCEPT !.hop = Some(n), !.ip = ip, !.responseTime = responseTime,
                     !.timeout = Some(FALSE)]

HopSet ==
    {TimedOutHop(n) : n \in 1..2}
    \cup {AnsweringHop(n, ip, Undefined) : n \in 1..2, ip \in {Undefined, Some("10.0.0.1")}}
    \cup {AnsweringHop(1, Some("10.0.0.1"), Some(7))}

HopSeqs == UNION {[1..n -> HopSet] : n \in 0..MaxHops}

\* traceroute(host): the command's output parsed into hops, or its failure.
traceroute(host, outcome) ==
    IF outcome.ok
    THEN [host |-> host, hops |-> outcome.hops, success |-> TRUE, error |-> Undefined]
    ELSE [host |-> host, hops |-> <<>>, success |-> FALSE,
          error |-> Some("traceroute failed")]

TraceFailure == [ok |-> FALSE, hops |-> <<>>]

TraceWithHops ==
    [ok |-> TRUE, hops |-> <<AnsweringHop(1, Some("10.0.0.1"), Some(7)), TimedOutHop(2)>>]

AllTraceOutcomes == {TraceFailure} \cup {[ok |-> TRUE, hops |-> h] : h \in HopSeqs}

----------------------------------------------------------------------------
(* NetworkMonitor.checkHost and resolveExistingIncidents, one step per     *)
(* await.  check[c] holds the locals of the in-flight checkHost call for   *)
(* the c-th entry of config.hosts.  now is the latest reading of the wall  *)
(* clock; a later reading is never smaller.                                *)

ConfigHosts == <<"A", "B">>

Checks == 1..Len(ConfigHosts)

ResolveWindow == 10

IdleCheck ==
    [pc |-> "idle", pingResult |-> Undefined, incident |-> Undefined,
     unresolvedIncidents |-> <<>>, i |-> 0]

\* checkHost has returned: what stays observable of the call is the probe's
\* result and the incidents its resolution step went through.
Returned(ch) == [IdleCheck EXCEPT !.pc = "done", !.pingResult = ch.pingResult,
                                  !.unresolvedIncidents = ch.unresolvedIncidents]

\* `.filter(incident => !incident.resolved)`
RECURSIVE FilterUnresolved(_)
FilterUnresolved(incidents) ==
    IF incidents = <<>> THEN <<>>
    ELSE (IF ~Head(incidents).resolved THEN <<Head(incidents)>> ELSE <<>>)
         \o FilterUnresolved(Tail(incidents))

\* The incident checkHost builds after the trace has returned.
BuildIncident(host, timestamp, pingResult, tracerouteResult) ==
    [host |-> host, timestamp |-> timestamp, resolved |-> FALSE,
     pingResult |-> pingResult, tracerouteResult |-> Some(tracerouteResult)]

\* A check that takes the resolution path whatever the probe found.
AlwaysSuccessPath(pingResult) == TRUE

\* Whether the probe's outcome sends checkHost down the resolution path.
TakesSuccessPath(pingResult) == pingResult.success

\* checkHost(host) is called and awaits pingWithRetries.
StartCheck(c) ==
    /\ check[c].pc \in {"idle", "done"}
    /\ check' = [check EXCEPT ![c] = [IdleCheck EXCEPT !.pc = "ping"]]
    /\ UNCHANGED <<rows, seq, now, ret, saved, monitor>>

PingDone(c) ==
    /\ check[c].pc = "ping"
    /\ \E ok \in BOOLEAN :
          LET pingResult == pingWithRetries(ConfigHosts[c], ok)
          IN  check' = [check EXCEPT ![c].pingResult = Some(pingResult),
                                     ![c].pc = IF TakesSuccessPath(pingResult)
                                               THEN "resolve" ELSE "trace"]
    /\ UNCHANGED <<rows, seq, now, ret, saved, monitor>>

\* resolveExistingIncidents: the query and the filter; with nothing to
\* resolve checkHost returns.
ResolveQuery(c) ==
    /\ check[c].pc = "resolve"
    /\ \E incidents \in getIncidentsByHost(rows, ConfigHosts[c], ResolveWindow) :
          LET unresolved == FilterUnresolved(incidents)
          IN  check' = [check EXCEPT ![c] =
                  IF unresolved = <<>> THEN Returned(check[c])
                  ELSE [@ EXCEPT !.unresolvedIncidents = unresolved, !.i = 1, !.pc = "mark"]]
    /\ UNCHANGED <<rows, seq, now, ret, saved, monitor>>

\* One iteration of the loop of resolveExistingIncidents; after the last
\* one checkHost returns.
MarkStep(c) ==
    /\ check[c].pc = "mark"
    /\ LET incident == check[c].unresolvedIncidents[check[c].i]
       IN  /\ rows' = IF TruthyNum(incident.id) THEN UpdateResolved(rows, incident.id)
                      ELSE rows
           /\ check' = [check EXCEPT ![c] =
                  IF check[c].i = Len(check[c].unresolvedIncidents) THEN Returned(check[c])
                  ELSE [@ EXCEPT !.i = @ + 1]]
    /\ UNCHANGED <<seq, now, ret, saved, monitor>>

\* traceroute returns and the incident is built with `new Date()`, a clock
\* reading among times.
TraceDone(c, outcomes, times) ==
    /\ check[c].pc = "trace"
    /\ \E outcome \in outcomes, t \in times :
          /\ now' = t
          /\ check' = [check EXCEPT
                ![c].incident = Some(BuildIncident(ConfigHosts[c], t, check[c].pingResult[1],
                                                   traceroute(ConfigHosts[c], outcome))),
                ![c].pc = "save"]
    /\ UNCHANGED <<rows, seq, ret, saved, monitor>>

\* saveIncident's INSERT completes and checkHost returns.
SaveDone(c, maxRows, maxIds) ==
    /\ check[c].pc = "save"
    /\ Len(rows) < maxRows
    /\ seq < maxIds
    /\ rows' = InsertRow(rows, seq, NewIncident(check[c].incident[1]))
    /\ seq' = rows'[Len(rows')].id
    /\ check' = [check EXCEPT ![c] = Returned(check[c])]
    /\ UNCHANGED <<now, ret, saved, monitor>>

----------------------------------------------------------------------------
(* NetworkMonitor.start, stop and performCheck.  monitor holds the fields  *)
(* of the NetworkMonitor (running, intervalId), the position of the        *)
(* start() call that awaits its check cycle, the locals of the             *)
(* performCheck call in flight, and the effects so far on timers, on the   *)
(* store handle and on the process.  process.exit ends the process: no     *)
(* code of the program runs after it.                                      *)

NoCycle ==
    [pc |-> "none", by |-> "none", results |-> <<>>, settled |-> {},
     summary |-> Undefined, stats |-> Undefined]

NewMonitor ==
    [running |-> FALSE, intervalId |-> NULL, start |-> "none", cycle |-> NoCycle,
     cycles |-> 0, starts |-> 0, stops |-> 0, effects |-> <<>>, exited |-> FALSE,
     earlier |-> <<>>]

\* The number of times an effect has happened.
Times(m, effect) == Cardinality({k \in 1..Len(m.effects) : m.effects[k] = effect})

\* An exception that leaves checkHost instead of becoming its outcome.
Propagated(ch) == [ch EXCEPT !.pc = "rejected"]

\* checkHost's catch clause: the exception becomes the call's outcome.
Caught(ch) == [Returned(ch) EXCEPT !.pc = "caught"]

\* The value checkHost returns.
CheckResult(host, ch) ==
    IF ch.pc = "caught"
    THEN [host |-> host, success |-> FALSE, responseTime |-> Undefined,
          error |-> Some("Unknown error")]
    ELSE IF ch.pingResult[1].success
    THEN [host |-> host, success |-> TRUE,
          responseTime |-> ch.pingResult[1].responseTime, error |-> Undefined]
    ELSE [host |-> host, success |-> FALSE, responseTime |-> Undefined,
          error |-> ch.pingResult[1].error]

\* The call awaited at checkHost's position pc (the probe, the trace, the
\* save) rejects, and checkHost returns from its catch clause.
AwaitThrows(c) ==
    /\ check[c].pc \in {"ping", "trace", "save"}
    /\ check' = [check EXCEPT ![c] = Caught(check[c])]
    /\ UNCHANGED <<rows, seq, now, ret, saved, monitor>>

\* `this.config.hosts.map(async (host) => ...)`: every entry's checkHost is
\* called and runs up to its first await.
LaunchedChecks == [c \in Checks |-> [IdleCheck EXCEPT !.pc = "ping"]]

\* performCheck is entered, from start() or from the timer.
performCheckCalled(m, by) ==
    [m EXCEPT !.cycle = [NoCycle EXCEPT !.pc = "checks", !.by = by],
              !.cycles = @ + 1]

\* A guard that never finds the monitor running.
NeverRunning(m) == FALSE

\* `if (this.running)` of start().
AlreadyRunning(m) == m.running

\* start() up to `await this.performCheck()`.
StartCall ==
    /\ ~monitor.exited
    /\ monitor.starts < MaxCalls
    /\ IF AlreadyRunning(monitor)
       THEN /\ monitor' = [monitor EXCEPT !.starts = @ + 1]
            /\ UNCHANGED check
       ELSE /\ monitor.cycles < MaxCycles
            /\ monitor' = performCheckCalled(
                              [monitor EXCEPT !.starts = @ + 1, !.running = TRUE,
                                              !.start = "awaiting"], "start")
            /\ check' = LaunchedChecks
    /\ UNCHANGED <<rows, seq, now, ret, saved>>

\* The map callback of performCheck resumes after its checkHost returned:
\* `results.push(result)`, and the callback's promise settles.
PushResult(c) ==
    /\ ~monitor.exited
    /\ monitor.cycle.pc = "checks"
    /\ check[c].pc \in {"done", "caught"}
    /\ c \notin monitor.cycle.settled
    /\ monitor' = [monitor EXCEPT
          !.cycle.results = Append(@, CheckResult(ConfigHosts[c], check[c])),
          !.cycle.settled = @ \cup {c}]
    /\ UNCHANGED <<rows, seq, now, check, ret, saved>>

\* A join that is over as soon as one promise has settled.
AnySettled(settled) == settled # {}

\* `await Promise.allSettled(checkPromises)`
AllSettled(settled) == settled = Checks

\* `results.filter(r => r.success).length` and its negation.
CountResults(results, success) ==
    Cardinality({k \in 1..Len(results) : results[k].success = success})

\* performCheck after the join: the counts of the summary, then
\* `await this.database.getStatistics()`.
Summarise ==
    /\ ~monitor.exited
    /\ monitor.cycle.pc = "checks"
    /\ AllSettled(monitor.cycle.settled)
    /\ monitor' = [monitor EXCEPT
          !.cycle.pc = "stats",
          !.cycle.summary = Some([successful |-> CountResults(monitor.cycle.results, TRUE),
                                  failed |-> CountResults(monitor.cycle.results, FALSE),
                                  hosts |-> Len(ConfigHosts)])]
    /\ UNCHANGED <<rows, seq, now, check, ret, saved>>

\* getStatistics returns, with the counts or from its catch clause, the
\* summary is reported and performCheck returns.
StatsDone ==
    /\ ~monitor.exited
    /\ monitor.cycle.pc = "stats"
    /\ \E fault \in BOOLEAN :
          monitor' = [monitor EXCEPT
              !.cycle.pc = "done",
              !.cycle.stats = Some(getStatisticsOrZeros(rows, fault))]
    /\ UNCHANGED <<rows, seq, now, check, ret, saved>>

\* An arming that does not wait for the cycle.
FirstCycleLaunched(m) == m.cycle.pc # "none"

\* `await this.performCheck()` of start() is over.
FirstCycleReturned(m) == m.cycle.pc = "done"

\* start() after the await: setInterval, and the signal handlers.
StartResumes ==
    /\ ~monitor.exited
    /\ monitor.start = "awaiting"
    /\ FirstCycleReturned(monitor)
    /\ monitor' = [monitor EXCEPT
          !.start = "returned",
          !.intervalId = Some(Times(monitor, "setInterval") + 1),
          !.effects = Append(@, "setInterval")]
    /\ UNCHANGED <<rows, seq, now, check, ret, saved>>

\* The interval timer fires and its callback calls performCheck.  The
\* interval is long enough for the cycle before to have returned.
TimerFires ==
    /\ ~monitor.exited
    /\ monitor.intervalId # NULL
    /\ monitor.cycle.pc = "done"
    /\ monitor.cycles < MaxCycles
    /\ monitor' = performCheckCalled(monitor, "timer")
    /\ check' = LaunchedChecks
    /\ UNCHANGED <<rows, seq, now, ret, saved>>

\* The interval timer fires while the cycle started before it has not
\* returned: setInterval calls its callback every interval whatever became
\* of the earlier calls, and the callback calls performCheck.  The earlier
\* cycle stays in flight with its checks; it is kept in earlier as it stood
\* and its further steps are not followed.
TimerFiresInFlight ==
    /\ ~monitor.exited
    /\ monitor.intervalId # NULL
    /\ monitor.cycle.pc \in {"checks", "stats"}
    /\ monitor.cycles <= MaxCycles
    /\ monitor' = [performCheckCalled(monitor, "timer") EXCEPT
          !.earlier = Append(@, [cycle |-> monitor.cycle, check |-> check])]
    /\ check' = LaunchedChecks
    /\ UNCHANGED <<rows, seq, now, ret, saved>>

\* A process.exit that returns to its caller.
ProcessExitReturns(m) == [m EXCEPT !.effects = Append(@, "exit")]

\* process.exit(0)
ProcessExit(m) == [m EXCEPT !.exited = TRUE, !.effects = Append(@, "exit")]

\* A guard that never finds the monitor stopped.
NeverStopped(m) == FALSE

\* `if (!this.running)` of stop().
NotRunning(m) == ~m.running

\* A stop() that releases the timer and the store handle and returns,
\* leaving the process alive.
stopLeavingProcess(m) ==
    IF NotRunning(m) THEN m
    ELSE [m EXCEPT
             !.running = FALSE,
             !.intervalId = NULL,
             !.effects = @ \o (IF m.intervalId # NULL THEN <<"clearInterval">> ELSE <<>>)
                           \o <<"close">>]

\* stop(): clearInterval on an armed timer, database.close(), process.exit.
stop(m) ==
    IF NotRunning(m) THEN m
    ELSE ProcessExit([m EXCEPT
             !.running = FALSE,
             !.intervalId = NULL,
             !.effects = @ \o (IF m.intervalId # NULL THEN <<"clearInterval">> ELSE <<>>)
                           \o <<"close">>])

\* stop() is called, by the owner of the monitor or by a signal handler.
StopCall ==
    /\ ~monitor.exited
    /\ monitor.stops < MaxCalls
    /\ monitor' = [stop(monitor) EXCEPT !.stops = @ + 1]
    /\ UNCHANGED <<rows, seq, now, check, ret, saved>>

\* `process.on('SIGINT', ...)` and `process.on('SIGTERM', ...)` are the last
\* statements of start(), run when start() resumes after the first cycle.
HandlersRegistered(m) == m.start = "returned"

\* A signal without a registered handler ends the process at once.
DefaultSignalAction(m) == [m EXCEPT !.exited = TRUE, !.effects = Append(@, "killed")]

\* SIGINT or SIGTERM is delivered to the process: the registered handler
\* calls stop(); with no handler registered the runtime's default applies.
SignalArrives ==
    /\ ~monitor.exited
    /\ monitor' = IF HandlersRegistered(monitor) THEN stop(monitor)
                  ELSE DefaultSignalAction(monitor)
    /\ UNCHANGED <<rows, seq, now, check, ret, saved>>

----------------------------------------------------------------------------

(* The query facade (src/src/api.ts) on the same storage location *)

\* PATCH /incidents/:id/resolve
ApiResolve(id) ==
    /\ rows' = UpdateResolved(rows, id)
    /\ rows' # rows
    /\ UNCHANGED <<seq, now, check, ret, saved, monitor>>

\* Number.parseInt(text, 10): an optional sign and the longest run of
\* decimal digits at the start of the text; NaN when there is none.
NaN == <<>>

IsDigit(ch) == \E n \in 0..9 : Digits[n + 1] = ch

RECURSIVE ParseDigits(_, _, _)
ParseDigits(text, k, acc) ==
    IF k > Len(text) \/ ~IsDigit(text[k]) THEN acc
    ELSE ParseDigits(text, k + 1, acc * 10 + TextNum(text[k]))

parseInt(text) ==
    IF text # <<>> /\ IsDigit(text[1]) THEN Some(ParseDigits(text, 1, 0))
    ELSE IF Len(text) >= 2 /\ text[1] = "-" /\ IsDigit(text[2])
         THEN Some(0 - ParseDigits(text, 2, 0))
         ELSE NaN

\* The path parameters a client sends as :id.
IdTexts == {<<"1">>, <<"2">>, <<"3">>, <<"9">>, <<"1", "2">>, <<"a">>, <<"1", "a">>, <<"-", "1">>}

\* `const success = database.markIncidentResolved(id)` is not awaited:
\* success is the promise of the answer, and `if (success)` tests the
\* promise, an object, which is truthy whatever it resolves to.
Promise(v) == [promise |-> v]

TruthyObject(o) == TRUE

\* PATCH /incidents/:id/resolve with its response; the update itself runs
\* to its end in the store.
PatchResolve(idText) ==
    LET id == parseInt(idText)
    IN  IF id = NaN
        THEN /\ ret' = [op |-> "PATCH", idText |-> idText, before |-> rows, status |-> 400]
             /\ UNCHANGED <<rows, seq, now, check, saved, monitor>>
        ELSE LET success == Promise(markIncidentResolvedResult(rows, id[1]))
             IN  /\ rows' = UpdateResolved(rows, id[1])
                 /\ ret' = [op |-> "PATCH", idText |-> idText, before |-> rows,
                            status |-> IF TruthyObject(success) THEN 200 ELSE 404]
                 /\ UNCHANGED <<seq, now, check, saved, monitor>>

\* DELETE /incidents
ApiClear ==
    /\ rows # <<>>
    /\ rows' = DeleteAll(rows)
    /\ seq' = SeqAfterDeleteAll(seq)
    /\ UNCHANGED <<now, check, ret, saved, monitor>>

----------------------------------------------------------------------------
(* The monitor beside the query facade.  The trace to the first host       *)
(* fails, the trace to the second host finds an answering and a timed-out  *)
(* hop.                                                                    *)

NoCall == [op |-> "none"]

Init ==
    /\ rows = <<>>
    /\ seq = 0
    /\ now = 0
    /\ check = [c \in Checks |-> IdleCheck]
    /\ ret = NoCall
    /\ saved = NoCall
    /\ monitor = NewMonitor

Next ==
    \/ \E c \in Checks : StartCheck(c)
    \/ \E c \in Checks : PingDone(c)
    \/ \E c \in Checks : ResolveQuery(c)
    \/ \E c \in Checks : MarkStep(c)
    \/ TraceDone(1, {TraceFailure}, now..MaxTime)
    \/ TraceDone(2, {TraceWithHops}, now..MaxTime)
    \/ \E c \in Checks : SaveDone(c, MaxRows, MaxIds)
    \/ \E id \in 1..MaxIds : ApiResolve(id)
    \/ ApiClear

Spec == Init /\ [][Next]_vars

----------------------------------------------------------------------------
(* One monitored host over many cycles, each cycle at least one interval  *)
(* after the one before, so that the clock has advanced between any two    *)
(* incidents: the resolution window.  The facade resolves some of the     *)
(* oldest incidents out of band.                                           *)

NextWindow ==
    \/ StartCheck(1)
    \/ PingDone(1)
    \/ ResolveQuery(1)
    \/ MarkStep(1)
    \/ TraceDone(1, {TraceFailure}, {now + 1})
    \/ SaveDone(1, MaxWindowRows, MaxWindowRows)
    \/ \E id \in 1..MaxWindowApiIds : ApiResolve(id)

SpecWindow == Init /\ [][NextWindow]_vars

----------------------------------------------------------------------------
(* A client of IncidentDatabase that awaits each call before the next.     *)
(* ret is the last call with its result, saved the last saveIncident call  *)
(* with its argument and the identifier it returned.                       *)

QueryHosts == {"A", "B", "nonexistent-host"}

\* The incidents checkHost can hand to saveIncident at clock reading t.
Incidents(hosts, outcomes, t) ==
    {BuildIncident(h, t, pingWithRetries(h, FALSE), traceroute(h, o)) :
        h \in hosts, o \in outcomes}

SaveCall(hosts, outcomes, maxRows, maxIds) ==
    /\ Len(rows) < maxRows
    /\ seq < maxIds
    /\ \E t \in now..MaxTime :
          \E incident \in Incidents(hosts, outcomes, t) :
             /\ now' = t
             /\ rows' = InsertRow(rows, seq, NewIncident(incident))
             /\ seq' = rows'[Len(rows')].id
             /\ saved' = [op |-> "saveIncident", incident |-> incident,
                          id |-> rows'[Len(rows')].id]
             /\ ret' = [op |-> "saveIncident", result |-> rows'[Len(rows')].id]
    /\ UNCHANGED <<check, monitor>>

MarkCall(id) ==
    /\ rows' = UpdateResolved(rows, id)
    /\ ret' = [op |-> "markIncidentResolved", id |-> id, before |-> rows,
               result |-> markIncidentResolvedResult(rows, id)]
    /\ UNCHANGED <<seq, now, check, saved, monitor>>

ClearCall ==
    /\ rows' = DeleteAll(rows)
    /\ seq' = SeqAfterDeleteAll(seq)
    /\ ret' = [op |-> "clearAllIncidents", result |-> TRUE]
    /\ UNCHANGED <<now, check, saved, monitor>>

GetRecentCall(limit) ==
    /\ \E result \in getRecentIncidents(rows, limit) :
          ret' = [op |-> "getRecentIncidents", limit |-> limit, result |-> result]
    /\ UNCHANGED <<rows, seq, now, check, saved, monitor>>

GetByHostCall(host, limit) ==
    /\ \E result \in getIncidentsByHost(rows, host, limit) :
          ret' = [op |-> "getIncidentsByHost", host |-> host, limit |-> limit,
                  result |-> result]
    /\ UNCHANGED <<rows, seq, now, check, saved, monitor>>

GetUnresolvedCall ==
    /\ \E result \in getUnresolvedIncidents(rows) :
          ret' = [op |-> "getUnresolvedIncidents", result |-> result]
    /\ UNCHANGED <<rows, seq, now, check, saved, monitor>>

GetLatestCall ==
    /\ \E result \in getLatestIncident(rows) :
          ret' = [op |-> "getLatestIncident", result |-> result]
    /\ UNCHANGED <<rows, seq, now, check, saved, monitor>>

StatsCall ==
    /\ ret' = [op |-> "getStatistics", result |-> getStatistics(rows)]
    /\ UNCHANGED <<rows, seq, now, check, saved, monitor>>

NextStore ==
    \/ SaveCall({"A", "B"}, {TraceFailure}, MaxStoreRows, MaxStoreIds)
    \/ \E id \in 1..MaxStoreIds : MarkCall(id)
    \/ ClearCall
    \/ StatsCall

SpecStore == Init /\ [][NextStore]_vars

----------------------------------------------------------------------------
(* The same client with the queries of the facade *)

NextQuery ==
    \/ SaveCall({"A", "B"}, {TraceFailure}, MaxRows, MaxIds)
    \/ \E id \in 1..MaxIds : MarkCall(id)
    \/ ClearCall
    \/ \E limit \in 0..MaxLimit : GetRecentCall(limit)
    \/ \E host \in QueryHosts, limit \in 0..MaxLimit : GetByHostCall(host, limit)
    \/ GetUnresolvedCall
    \/ GetLatestCall

SpecQuery == Init /\ [][NextQuery]_vars

----------------------------------------------------------------------------
(* The same client saving a single incident with every trace the Prober   *)
(* can produce, and reading it back through each getter.                   *)

NextRoundTrip ==
    \/ SaveCall({"A"}, AllTraceOutcomes, 1, MaxIds)
    \/ GetRecentCall(MaxLimit)
    \/ GetByHostCall("A", MaxLimit)
    \/ GetUnresolvedCall
    \/ GetLatestCall

SpecRoundTrip == Init /\ [][NextRoundTrip]_vars

----------------------------------------------------------------------------
(* The monitor from construction to exit: start() and stop() called at any *)
(* time, the check cycles of start() and of the timer, and awaited calls   *)
(* that reject.                                                            *)

NextLifecycle ==
    \/ StartCall
    \/ StopCall
    \/ \E c \in Checks : ~monitor.exited /\ PingDone(c)
    \/ \E c \in Checks : ~monitor.exited /\ ResolveQuery(c)
    \/ \E c \in Checks : ~monitor.exited /\ MarkStep(c)
    \/ \E c \in Checks : ~monitor.exited /\ TraceDone(c, {TraceFailure}, now..MaxTime)
    \/ \E c \in Checks : ~monitor.exited /\ SaveDone(c, MaxRows, MaxIds)
    \/ \E c \in Checks : ~monitor.exited /\ AwaitThrows(c)
    \/ \E c \in Checks : PushResult(c)
    \/ Summarise
    \/ StatsDone
    \/ StartResumes
    \/ TimerFires

SpecLifecycle == Init /\ [][NextLifecycle]_vars

----------------------------------------------------------------------------
(* A monitor that is started and not stopped, with an event loop that runs *)
(* every continuation whose awaited call has settled: probes, traces and   *)
(* store calls return or reject in finite time.                            *)

\* A step of the checkHost call for the c-th configured host.
CheckSteps(c) ==
    \/ PingDone(c)
    \/ ResolveQuery(c)
    \/ MarkStep(c)
    \/ TraceDone(c, {TraceFailure}, {now})
    \/ SaveDone(c, MaxRows, MaxIds)
    \/ AwaitThrows(c)

NextCycles ==
    \/ StartCall
    \/ \E c \in Checks : CheckSteps(c)
    \/ \E c \in Checks : PushResult(c)
    \/ Summarise
    \/ StatsDone
    \/ StartResumes
    \/ TimerFires

SpecCycles ==
    /\ Init /\ [][NextCycles]_vars
    /\ \A c \in Checks : WF_vars(CheckSteps(c))
    /\ \A c \in Checks : WF_vars(PushResult(c))
    /\ WF_vars(Summarise)
    /\ WF_vars(StatsDone)

----------------------------------------------------------------------------
(* The client of IncidentDatabase on a storage layer that can fail: the    *)
(* query a method awaits rejects (locked or closed database, I/O error)    *)
(* and the method's catch clause runs.  A statement that failed has stored *)
(* nothing.                                                                *)

ReadOps ==
    {"getRecentIncidents", "getIncidentsByHost", "getUnresolvedIncidents",
     "getLatestIncident", "getStatistics"}

WriteOps == {"saveIncident", "markIncidentResolved", "clearAllIncidents"}

\* A saveIncident that reports a failed INSERT as if nothing had happened.
saveIncidentSwallows(op) == FALSE

\* Whether the method's catch clause raises the failure again: saveIncident
\* has `throw error`, every other method returns a value.
Rethrows(op) == op = "saveIncident"

\* The value the method returns from its catch clause; a clause without a
\* return statement gives undefined.
CatchResult(op) ==
    CASE op \in {"getRecentIncidents", "getIncidentsByHost", "getUnresolvedIncidents"} -> <<>>
      [] op = "getLatestIncident" -> NULL
      [] op = "getStatistics" -> getStatisticsOrZeros(rows, TRUE)
      [] op = "markIncidentResolved" -> FALSE
      [] op = "clearAllIncidents" -> FALSE
      [] OTHER -> Undefined

\* A call of the method op during which the storage layer fails.
StorageFault(op) ==
    /\ ret' = IF Rethrows(op)
              THEN [op |-> op, fault |-> TRUE, thrown |-> TRUE]
              ELSE [op |-> op, fault |-> TRUE, thrown |-> FALSE, result |-> CatchResult(op)]
    /\ UNCHANGED <<rows, seq, now, check, saved, monitor>>

NextFaults ==
    \/ SaveCall({"A", "B"}, {TraceFailure}, MaxRows, MaxIds)
    \/ \E id \in 1..MaxIds : MarkCall(id)
    \/ GetRecentCall(MaxLimit)
    \/ GetLatestCall
    \/ StatsCall
    \/ \E op \in ReadOps \cup WriteOps : StorageFault(op)

SpecFaults == Init /\ [][NextFaults]_vars

----------------------------------------------------------------------------
(* pingWithRetries as its loop runs.  An attempt is a call of ping, whose  *)
(* outcome is that of the ping command: an answer, or one of two failures  *)
(* with their own error message.  run collects the attempts and the        *)
(* 1000 ms waits in the order they happen.                                 *)

PingOutcomes == {"answer", "timeout", "unreachable"}

\* ping(host, timeout): the result for one run of the ping command.
ping(host, outcome) ==
    IF outcome = "answer"
    THEN [host |-> host, success |-> TRUE, responseTime |-> Some(5), error |-> Undefined]
    ELSE [host |-> host, success |-> FALSE, responseTime |-> Undefined,
          error |-> Some(outcome)]

NewRun == [events |-> <<>>, lastResult |-> Undefined, result |-> Undefined]

\* A loop that waits after every failed attempt.
WaitsAfterEveryFailure(i, retries) == TRUE

\* `if (i < retries)`: a wait follows a failed attempt that is not the last.
WaitsBeforeRetry(i, retries) == i < retries

\* The loop of pingWithRetries from iteration i on; outcomes[i + 1] is the
\* outcome of the attempt of iteration i.  After the loop `lastResult!` is
\* returned, undefined when no iteration ran.
RECURSIVE pingLoop(_, _, _, _, _)
pingLoop(host, i, retries, outcomes, run) ==
    IF ~(i <= retries) THEN [run EXCEPT !.result = run.lastResult]
    ELSE LET lastResult == ping(host, outcomes[i + 1])
             tried == [run EXCEPT !.lastResult = Some(lastResult),
                                  !.events = Append(@, outcomes[i + 1])]
         IN  IF lastResult.success THEN [tried EXCEPT !.result = Some(lastResult)]
             ELSE pingLoop(host, i + 1, retries, outcomes,
                           IF WaitsBeforeRetry(i, retries)
                           THEN [tried EXCEPT !.events = Append(@, "wait")]
                           ELSE tried)

\* pingWithRetries(host, retries, timeout) is called and runs to its return.
PingCall ==
    /\ \E retries \in (0 - 1)..MaxRetries :
          \E outcomes \in [1..(retries + 1) -> PingOutcomes] :
             ret' = [op |-> "pingWithRetries", retries |-> retries, outcomes |-> outcomes,
                     run |-> pingLoop("A", 0, retries, outcomes, NewRun)]
    /\ UNCHANGED <<rows, seq, now, check, saved, monitor>>

NextPing == PingCall

SpecPing == Init /\ [][NextPing]_vars

----------------------------------------------------------------------------
(* The configuration resolver: env (validated by its schema when the       *)
(* module loads) and createConfig.  A text is a sequence of characters.    *)

IntervalMin == 10
IntervalMax == 3600
TimeoutMin == 1000
TimeoutMax == 30000
RetriesMin == 1
RetriesMax == 10
DefaultInterval == 60
DefaultTimeout == 5000
DefaultRetries == 3
DefaultApiPort == 3000

defaultHosts == << <<"8.8.8.8">>, <<"google.com">>, <<"github.com">> >>

DefaultDbPath == <<"./pingthing.db">>

\* a || b on numbers that may be undefined: a unless it is undefined or 0.
OrNum(a, b) == IF a # Undefined /\ TruthyNum(a[1]) THEN a ELSE b

\* a || b on texts that may be undefined: a unless it is undefined or "".
OrText(a, b) == IF a # Undefined /\ a[1] # <<>> THEN a ELSE b

\* text.split(","): the pieces between the commas, at least one.
RECURSIVE SplitFrom(_, _, _)
SplitFrom(text, k, piece) ==
    IF k > Len(text) THEN <<piece>>
    ELSE IF text[k] = "," THEN <<piece>> \o SplitFrom(text, k + 1, <<>>)
         ELSE SplitFrom(text, k + 1, Append(piece, text[k]))

split(text) == SplitFrom(text, 1, <<>>)

\* h.trim(): without the blanks at either end.
RECURSIVE trim(_)
trim(h) ==
    IF h = <<>> THEN h
    ELSE IF Head(h) = " " THEN trim(Tail(h))
         ELSE IF h[Len(h)] = " " THEN trim(SubSeq(h, 1, Len(h) - 1))
              ELSE h

\* What the schema of env lets through for a number bounded by min and max:
\* the variable unset (or empty), or a number within the bounds.  Any other
\* value makes createEnv throw before main runs.
EnvNumbers(min, max) == {Undefined, Some(min), Some(max)}

\* What parseArgs returns for a Number option: absent, or the number given.
ArgNumbers(min, max) == {Undefined, Some(0), Some(min - 1), Some(max + 1)}

HostTexts == {Undefined, Some(<<>>), Some(<<"a", ",", " ", "b", " ">>)}

createConfig(args, envDefaults) ==
    LET hostsInput == OrText(args.hosts, envDefaults.hosts)
        hosts == IF hostsInput # Undefined /\ hostsInput[1] # <<>>
                 THEN [k \in 1..Len(split(hostsInput[1])) |-> trim(split(hostsInput[1])[k])]
                 ELSE defaultHosts
    IN  [hosts |-> hosts,
         interval |-> OrNum(args.interval,
                            OrNum(envDefaults.interval, Some(DefaultInterval)))[1],
         timeout |-> OrNum(args.timeout,
                           OrNum(envDefaults.timeout, Some(DefaultTimeout)))[1],
         retries |-> OrNum(args.retries,
                           OrNum(envDefaults.retries, Some(DefaultRetries)))[1],
         apiPort |-> OrNum(args.apiPort, OrNum(envDefaults.apiPort, Some(DefaultApiPort)))[1],
         dbPath |-> OrText(args.dbPath, OrText(envDefaults.dbPath, Some(DefaultDbPath)))[1]]

\* main: parseArgs, then createConfig, once in the life of the process.  The
\* port and the path of the store are left to their defaults.
CreateConfigCall ==
    /\ ret.op # "createConfig"
    /\ \E ah \in HostTexts, eh \in HostTexts \ {Some(<<>>)},
          ai \in ArgNumbers(IntervalMin, IntervalMax), ei \in EnvNumbers(IntervalMin, IntervalMax),
          at \in ArgNumbers(TimeoutMin, TimeoutMax), et \in EnvNumbers(TimeoutMin, TimeoutMax),
          ar \in ArgNumbers(RetriesMin, RetriesMax), er \in EnvNumbers(RetriesMin, RetriesMax) :
          LET args == [hosts |-> ah, interval |-> ai, timeout |-> at, retries |-> ar,
                       apiPort |-> Undefined, dbPath |-> Undefined]
              envDefaults == [hosts |-> eh, interval |-> ei, timeout |-> et, retries |-> er,
                              apiPort |-> Undefined, dbPath |-> Undefined]
          IN  ret' = [op |-> "createConfig", args |-> args, envDefaults |-> envDefaults,
                      config |-> createConfig(args, envDefaults)]
    /\ UNCHANGED <<rows, seq, now, check, saved, monitor>>

NextConfig == CreateConfigCall

SpecConfig == Init /\ [][NextConfig]_vars

----------------------------------------------------------------------------
(* The facade answering clients while incidents are saved to the store *)

NextFacade ==
    \/ SaveCall({"A", "B"}, {TraceFailure}, MaxRows, MaxIds)
    \/ \E idText \in IdTexts : PatchResolve(idText)

SpecFacade == Init /\ [][NextFacade]_vars

----------------------------------------------------------------------------
(* The cycles of a started monitor whose timer may fire before the cycle   *)
(* in flight has returned.                                                 *)

NextOverlap ==
    \/ StartCall
    \/ \E c \in Checks : CheckSteps(c)
    \/ \E c \in Checks : PushResult(c)
    \/ Summarise
    \/ StatsDone
    \/ StartResumes
    \/ TimerFires
    \/ TimerFiresInFlight

SpecOverlap == Init /\ [][NextOverlap]_vars

----------------------------------------------------------------------------
(* getStatistics query by query.  Its three counts are three statements,   *)
(* each read on its own from the storage location; no transaction spans    *)
(* them.  Here the facade process answers GET /statistics while the        *)
(* monitor process runs its checks on the same location.  ret is the call  *)
(* in progress: the next query to run and the counts read so far.          *)

StatsBegin ==
    /\ IF ret.op = "getStatistics" THEN ret.pc = "returned" ELSE TRUE
    /\ ret' = [op |-> "getStatistics", pc |-> "total", total |-> Undefined,
               unresolved |-> Undefined, hosts |-> Undefined, result |-> Undefined]
    /\ UNCHANGED <<rows, seq, now, check, saved, monitor>>

\* SELECT COUNT(id) FROM incidents
StatsTotal ==
    /\ ret.op = "getStatistics" /\ ret.pc = "total"
    /\ ret' = [ret EXCEPT !.total = Some(CountAll(rows)), !.pc = "unresolved"]
    /\ UNCHANGED <<rows, seq, now, check, saved, monitor>>

\* SELECT COUNT(id) FROM incidents WHERE resolved = false
StatsUnresolved ==
    /\ ret.op = "getStatistics" /\ ret.pc = "unresolved"
    /\ ret' = [ret EXCEPT !.unresolved = Some(CountUnresolved(rows)), !.pc = "hosts"]
    /\ UNCHANGED <<rows, seq, now, check, saved, monitor>>

\* SELECT COUNT(DISTINCT host) FROM incidents; Promise.all is fulfilled and
\* getStatistics returns the three numbers.
StatsHosts ==
    /\ ret.op = "getStatistics" /\ ret.pc = "hosts"
    /\ LET hosts == CountDistinctHosts(rows)
       IN  ret' = [ret EXCEPT
                !.hosts = Some(hosts),
                !.pc = "returned",
                !.result = Some([totalIncidents |-> CountOrZero(ret.total[1]),
                                 unresolvedIncidents |-> CountOrZero(ret.unresolved[1]),
                                 hostsAffected |-> CountOrZero(hosts)])]
    /\ UNCHANGED <<rows, seq, now, check, saved, monitor>>

NextStatsRace ==
    \/ \E c \in Checks : StartCheck(c)
    \/ \E c \in Checks : CheckSteps(c)
    \/ StatsBegin
    \/ StatsTotal
    \/ StatsUnresolved
    \/ StatsHosts

SpecStatsRace == Init /\ [][NextStatsRace]_vars

----------------------------------------------------------------------------
(* A started monitor whose process receives an interrupt or terminate      *)
(* signal at any moment.                                                   *)

NextSignals ==
    \/ StartCall
    \/ \E c \in Checks : ~monitor.exited /\ CheckSteps(c)
    \/ \E c \in Checks : PushResult(c)
    \/ Summarise
    \/ StatsDone
    \/ StartResumes
    \/ TimerFires
    \/ SignalArrives

SpecSignals == Init /\ [][NextSignals]_vars

----------------------------------------------------------------------------
(* The first definition of NetworkMonitor in the repository (the one with  *)
(* the plain log lines).  Its checkHost is that of the second definition   *)
(* up to the call of resolveExistingIncidents, and its failure path builds *)
(* and saves the same incident.  Its resolveExistingIncidents calls        *)
(* `this.database.getIncidentsByHost(host, 10).filter(...)` without await: *)
(* getIncidentsByHost is async, its value a promise, and a promise has no  *)
(* filter method, so the call throws a TypeError, which checkHost catches. *)

\* resolveExistingIncidents of the first definition, awaited by checkHost.
ResolveQueryFirst(c) ==
    /\ check[c].pc = "resolve"
    /\ check' = [check EXCEPT ![c] = Caught(check[c])]
    /\ UNCHANGED <<rows, seq, now, ret, saved, monitor>>

NextFirst ==
    \/ \E c \in Checks : StartCheck(c)
    \/ \E c \in Checks : PingDone(c)
    \/ \E c \in Checks : ResolveQueryFirst(c)
    \/ \E c \in Checks : TraceDone(c, {TraceFailure}, now..MaxTime)
    \/ \E c \in Checks : SaveDone(c, MaxRows, MaxIds)

SpecFirst == Init /\ [][NextFirst]_vars

\* The same checks run by the second definition.
NextSecond ==
    \/ \E c \in Checks : StartCheck(c)
    \/ \E c \in Checks : PingDone(c)
    \/ \E c \in Checks : ResolveQuery(c)
    \/ \E c \in Checks : MarkStep(c)
    \/ \E c \in Checks : TraceDone(c, {TraceFailure}, now..MaxTime)
    \/ \E c \in Checks : SaveDone(c, MaxRows, MaxIds)

SpecSecond == Init /\ [][NextSecond]_vars

----------------------------------------------------------------------------
(* Properties *)

RowsOfHost(h) == {i \in 1..Len(rows) : rows[i].host = h}

IsOpen(i) == ~mapRowToIncident(rows[i]).resolved

Acts(c) == check'[c] # check[c]

\* C1: a per-host check whose probe failed goes on to the trace and the save,
\* and its save adds exactly one row, for the checked host, unresolved, with
\* pingResult.success = false, whatever incidents of the host are still open;
\* no other step of a check, the whole success path included, adds a row.
C1_FailedProbeAddsOneIncident ==
    [][\A c \in Checks : Acts(c) =>
          /\ check[c].pc = "ping" =>
                IF check'[c].pingResult[1].success
                THEN check'[c].pc = "resolve" ELSE check'[c].pc = "trace"
          /\ check[c].pc = "trace" => check'[c].pc = "save"
          /\ check[c].pc = "save" =>
                /\ ~check[c].pingResult[1].success
                /\ Len(rows') = Len(rows) + 1
                /\ SubSeq(rows', 1, Len(rows)) = rows
                /\ LET new == mapRowToIncident(rows'[Len(rows')])
                   IN  /\ new.host = ConfigHosts[c]
                       /\ ~new.resolved
                       /\ ~new.pingResult.success
                /\ check'[c].pc = "done"
          /\ check[c].pc # "save" => Len(rows') = Len(rows)
      ]_vars

\* C1 witness: a failed probe added an incident while an earlier incident of
\* the same host was still open.
C1_Witness ==
    \E c \in Checks :
        /\ check[c].pc = "done"
        /\ ~check[c].pingResult[1].success
        /\ \E i, j \in RowsOfHost(ConfigHosts[c]) : i < j /\ IsOpen(i) /\ IsOpen(j)

\* The identifiers of the incidents of host h that a query for the 10 most
\* recent incidents of h must return (fewer than 10 other incidents of h are
\* as recent) and may return (fewer than 10 incidents of h are more recent).
MustBeInWindow(h) ==
    {rows[i].id : i \in {k \in RowsOfHost(h) :
        Cardinality({j \in RowsOfHost(h) \ {k} :
            NewDate(rows[j].timestamp) >= NewDate(rows[k].timestamp)}) < 10}}

MayBeInWindow(h) ==
    {rows[i].id : i \in {k \in RowsOfHost(h) :
        Cardinality({j \in RowsOfHost(h) :
            NewDate(rows[j].timestamp) > NewDate(rows[k].timestamp)}) < 10}}

OpenIds(h) == {rows[i].id : i \in {k \in RowsOfHost(h) : IsOpen(k)}}

ListIds(incidents) == {incidents[k].id : k \in 1..Len(incidents)}

\* The resolution step selects exactly the open incidents of the host among
\* its 10 most recent, and each of its updates resolves the selected incident
\* and touches no other row.
C2_ResolutionSteps ==
    [][\A c \in Checks : Acts(c) =>
          /\ check[c].pc = "resolve" =>
                LET h == ConfigHosts[c]
                    selected == ListIds(check'[c].unresolvedIncidents)
                IN  /\ (MustBeInWindow(h) \cap OpenIds(h)) \subseteq selected
                    /\ selected \subseteq (MayBeInWindow(h) \cap OpenIds(h))
                    /\ Cardinality(selected) = Len(check'[c].unresolvedIncidents)
          /\ check[c].pc = "mark" =>
                LET id == check[c].unresolvedIncidents[check[c].i].id
                IN  /\ Len(rows') = Len(rows)
                    /\ \A j \in 1..Len(rows) :
                          rows'[j] = IF rows[j].id = id
                                     THEN [rows[j] EXCEPT !.resolved = 1]
                                     ELSE rows[j]
                    /\ check'[c].pc = "done" <=> check[c].i = Len(check[c].unresolvedIncidents)
      ]_vars

\* Once the check has returned, every selected incident still stored is
\* resolved and getUnresolvedIncidents() holds none of them.
C2_AfterResolution ==
    \A c \in Checks :
        (check[c].pc = "done" /\ check[c].pingResult[1].success) =>
            \A id \in ListIds(check[c].unresolvedIncidents) :
                /\ \A j \in 1..Len(rows) : rows[j].id = id => ~IsOpen(j)
                /\ \A unresolved \in getUnresolvedIncidents(rows) :
                      id \notin ListIds(unresolved)

\* C2: a successful probe of host H resolves exactly the unresolved incidents
\* of H among the 10 most recent incidents of H by timestamp; unresolved
\* incidents of H older than that window stay unresolved, and afterwards
\* getUnresolvedIncidents() contains none of the incidents of the window.
C2_ResolvesTheWindow == C2_ResolutionSteps /\ []C2_AfterResolution

\* C2 witness: a check has resolved a full window of 10 incidents and an older
\* incident of the host is still open.
C2_Witness ==
    /\ check[1].pc = "done"
    /\ Len(check[1].unresolvedIncidents) = 10
    /\ \E i \in RowsOfHost(ConfigHosts[1]) :
          /\ IsOpen(i)
          /\ \A k \in 1..10 :
                check[1].unresolvedIncidents[k].timestamp > NewDate(rows[i].timestamp)

\* C3: when the probe of host H succeeded and no incident of H is unresolved,
\* the resolution step finds nothing to update and returns with the store as
\* it was: no row inserted, deleted or modified.
C3_ResolutionIsNoOp ==
    [][\A c \in Checks :
          (Acts(c) /\ check[c].pc = "resolve" /\ OpenIds(ConfigHosts[c]) = {}) =>
              /\ rows' = rows
              /\ seq' = seq
              /\ check'[c].unresolvedIncidents = <<>>
              /\ check'[c].pc = "done"
      ]_vars

\* C3 witness: a successful check returned having found nothing to resolve
\* although the store holds incidents, one of them an open incident of the
\* other host.
C3_Witness ==
    \E c \in Checks :
        /\ check[c].pc = "done"
        /\ check[c].pingResult[1].success
        /\ check[c].unresolvedIncidents = <<>>
        /\ RowsOfHost(ConfigHosts[c]) # {}
        /\ OpenIds(ConfigHosts[c]) = {}
        /\ \E i \in 1..Len(rows) : IsOpen(i)

\* Whether the last call was markIncidentResolved on an identifier that was
\* stored / was stored and already resolved when the call was made.
MarkedExisting ==
    ret.op = "markIncidentResolved"
    /\ \E i \in 1..Len(ret.before) : ret.before[i].id = ret.id

MarkedResolved ==
    ret.op = "markIncidentResolved"
    /\ \E i \in 1..Len(ret.before) : ret.before[i].id = ret.id /\ ret.before[i].resolved = 1

MarkEffect ==
    ret.op = "markIncidentResolved" =>
        /\ Len(rows) = Len(ret.before)
        /\ \A i \in 1..Len(rows) :
              IF ret.before[i].id = ret.id
              THEN rows[i] = [ret.before[i] EXCEPT !.resolved = 1] /\ ~IsOpen(i)
              ELSE rows[i] = ret.before[i]
        /\ ~MarkedExisting => (rows = ret.before /\ ret.result = FALSE)

C5_IncidentLifecycle ==
    [][\/ rows' = <<>>
       \/ \A i \in 1..Len(rows) :
             /\ i <= Len(rows')
             /\ rows'[i] = [rows[i] EXCEPT !.resolved = rows'[i].resolved]
             /\ rows'[i].resolved \in {0, 1}
             /\ rows'[i].resolved >= rows[i].resolved
      ]_vars

\* C5 witness: a resolved incident beside an open one, after a clear.
C5_Witness ==
    /\ Len(rows) = 2
    /\ ~IsOpen(1)
    /\ IsOpen(2)
    /\ rows[1].id > 1

\* C6: the identifier a saveIncident call returns is the new row's, differs
\* from every stored identifier and is greater than the identifier the
\* previous saveIncident call returned, and so than all earlier ones, also
\* when clearAllIncidents has emptied the table in between.
C6_IdentifiersIncrease ==
    [][Len(rows') = Len(rows) + 1 =>
          LET id == rows'[Len(rows')].id
          IN  /\ ret'.op = "saveIncident" /\ ret'.result = id
              /\ saved'.id = id
              /\ saved.op = "saveIncident" => id > saved.id
              /\ \A i \in 1..Len(rows) : rows[i].id < id
      ]_vars

\* C6 witness: a save into the table after clearAllIncidents had emptied it.
C6_Witness ==
    /\ ret.op = "saveIncident"
    /\ Len(rows) = 1
    /\ ret.result > 1

\* The incidents the last getter call returned for the identifier of the last
\* saved incident.
ReadBack ==
    IF ret.op \in {"getRecentIncidents", "getIncidentsByHost", "getUnresolvedIncidents"}
    THEN {ret.result[k] : k \in {j \in 1..Len(ret.result) :
                                     saved.op = "saveIncident" /\ ret.result[j].id = saved.id}}
    ELSE IF ret.op = "getLatestIncident" /\ ret.result # Undefined
              /\ saved.op = "saveIncident" /\ ret.result[1].id = saved.id
    THEN {ret.result[1]}
    ELSE {}

SavedTrace == saved.incident.tracerouteResult[1]

\* C7: an incident saved with a failed trace (success = false, no hops) reads
\* back from every getter with its trace present, success = false and an
\* empty hop sequence.
C7_FailedTraceIsReadBack ==
    \A incident \in ReadBack :
        (~SavedTrace.success /\ SavedTrace.hops = <<>>) =>
            /\ incident.tracerouteResult # Undefined
            /\ ~incident.tracerouteResult[1].success
            /\ incident.tracerouteResult[1].hops = <<>>

\* C8: an incident saved with a non-empty hop sequence reads back from every
\* getter with as many hops, carrying the same hop indices and timed-out
\* flags in the same order.
C8_HopsRoundTrip ==
    \A incident \in ReadBack :
        SavedTrace.hops # <<>> =>
            /\ incident.tracerouteResult # Undefined
            /\ LET hops == incident.tracerouteResult[1].hops
               IN  /\ Len(hops) = Len(SavedTrace.hops)
                   /\ \A k \in 1..Len(hops) :
                         /\ hops[k].hop = SavedTrace.hops[k].hop
                         /\ hops[k].timeout = SavedTrace.hops[k].timeout

\* C8 witness: an incident with an answering hop and a timed-out hop read
\* back by getIncidentsByHost.
C8_Witness ==
    /\ ret.op = "getIncidentsByHost"
    /\ ReadBack # {}
    /\ Len(SavedTrace.hops) = 2
    /\ SavedTrace.hops[1].timeout = Some(FALSE)
    /\ SavedTrace.hops[2].timeout = Some(TRUE)

\* C9: getStatistics() returns the number of stored rows, the number of them
\* that are unresolved and the number of distinct hosts among them.
C9_StatisticsCount ==
    ret.op = "getStatistics" =>
        /\ ret.result.totalIncidents = Len(rows)
        /\ ret.result.unresolvedIncidents
              = Len(rows) - Cardinality({i \in 1..Len(rows) : ~IsOpen(i)})
        /\ ret.result.hostsAffected
              = Cardinality({h \in QueryHosts : RowsOfHost(h) # {}})

\* C9 witness: incidents of hosts A, B, A with one resolved give 3, 2, 2.
C9_Witness ==
    /\ ret.op = "getStatistics"
    /\ Len(rows) = 3
    /\ <<rows[1].host, rows[2].host, rows[3].host>> = <<"A", "B", "A">>
    /\ Cardinality({i \in 1..3 : IsOpen(i)}) = 2
    /\ ret.result = [totalIncidents |-> 3, unresolvedIncidents |-> 2, hostsAffected |-> 2]

\* What a limited query over the rows at the positions in S must return: as
\* many incidents as the limit allows, each a distinct stored row of S, in
\* descending timestamp order, none older than a row of S left out.
IsTopOf(result, S, limit) ==
    /\ Len(result) = Min(limit, Cardinality(S))
    /\ \A k \in 1..Len(result) :
          \E i \in S : result[k] = mapRowToIncident(rows[i])
    /\ \A k, l \in 1..Len(result) :
          /\ k < l => result[k].timestamp >= result[l].timestamp
          /\ k # l => result[k].id # result[l].id
    /\ \A i \in S :
          (\A k \in 1..Len(result) : result[k].id # rows[i].id) =>
              \A k \in 1..Len(result) : result[k].timestamp >= NewDate(rows[i].timestamp)

\* C10: getRecentIncidents(limit) and getIncidentsByHost(host, limit) return
\* at most limit incidents, the ones with the greatest timestamps (of the host,
\* for the by-host query), in descending timestamp order; limit 0 and a host
\* without incidents give an empty sequence.
C10_LimitedQueries ==
    /\ ret.op = "getRecentIncidents" =>
          /\ IsTopOf(ret.result, 1..Len(rows), ret.limit)
          /\ ret.limit = 0 => ret.result = <<>>
    /\ ret.op = "getIncidentsByHost" =>
          /\ IsTopOf(ret.result, RowsOfHost(ret.host), ret.limit)
          /\ \A k \in 1..Len(ret.result) : ret.result[k].host = ret.host
          /\ (ret.limit = 0 \/ RowsOfHost(ret.host) = {}) => ret.result = <<>>

\* C10 witness: a by-host query cut off by its limit, with an older incident
\* of the host left out.
C10_Witness ==
    /\ ret.op = "getIncidentsByHost"
    /\ ret.limit = 1
    /\ Len(ret.result) = 1
    /\ Cardinality(RowsOfHost(ret.host)) = 2
    /\ \E i \in RowsOfHost(ret.host) : NewDate(rows[i].timestamp) < ret.result[1].timestamp

\* The positions of the stored incidents whose resolved flag is false.
OpenRows == {i \in 1..Len(rows) : IsOpen(i)}

\* C11: getUnresolvedIncidents() returns every stored incident with
\* resolved=false, each once, and no incident with resolved=true, whatever
\* their number, in descending timestamp order; getLatestIncident() returns a
\* stored incident whose timestamp no stored incident exceeds, or nothing when
\* the store has no rows.
C11_UnresolvedAndLatest ==
    /\ ret.op = "getUnresolvedIncidents" =>
          /\ IsTopOf(ret.result, OpenRows, Cardinality(OpenRows))
          /\ Len(ret.result) = Cardinality(OpenRows)
          /\ \A k \in 1..Len(ret.result) : ~ret.result[k].resolved
    /\ ret.op = "getLatestIncident" =>
          IF rows = <<>> THEN ret.result = Undefined
          ELSE /\ ret.result # Undefined
               /\ \E i \in 1..Len(rows) : ret.result[1] = mapRowToIncident(rows[i])
               /\ \A i \in 1..Len(rows) : ret.result[1].timestamp >= NewDate(rows[i].timestamp)

\* C11 witness: the unresolved query leaves out the resolved one of two stored
\* incidents, the later of the two.
C11_Witness ==
    /\ ret.op = "getUnresolvedIncidents"
    /\ Len(rows) = 2
    /\ Len(ret.result) = 1
    /\ ~IsOpen(2)
    /\ NewDate(rows[2].timestamp) > ret.result[1].timestamp

----------------------------------------------------------------------------
(* Properties of start(), stop() and performCheck *)

\* Everything but the monitor's own record is left as it was.
OnlyMonitorChanges == UNCHANGED <<rows, seq, now, check, ret, saved>>

\* C12: a call to start() while the monitor is running, the time of the first
\* call's immediate check cycle included, returns without starting a check
\* cycle, without arming a timer and without any other effect; at most one
\* repeating timer is ever armed.
C12_StartIsIdempotent ==
    /\ [][(monitor.running /\ monitor'.starts # monitor.starts) =>
              /\ monitor' = [monitor EXCEPT !.starts = @ + 1]
              /\ OnlyMonitorChanges
         ]_vars
    /\ [](Times(monitor, "setInterval") <= 1)

\* C12 witness: start() has been called a second time while the check cycle of
\* the first call is in progress, one host's trace pending.
C12_Witness ==
    /\ monitor.starts = 2
    /\ monitor.cycles = 1
    /\ monitor.start = "awaiting"
    /\ monitor.cycle.pc = "checks"
    /\ \E c \in Checks : check[c].pc = "trace"

\* C13: the timer is armed only by the first start() call, after its check
\* cycle over all configured hosts has settled and performCheck has returned;
\* the first cycle is the one start() runs, with no timer armed, and every
\* later cycle is launched by the armed timer and by no start() call.
C13_FirstCycleBeforeTimer ==
    [][/\ Times(monitor', "setInterval") > Times(monitor, "setInterval") =>
              /\ monitor.cycles = 1
              /\ monitor'.cycles = 1
              /\ monitor.cycle.by = "start"
              /\ monitor.cycle.pc = "done"
              /\ monitor.cycle.settled = Checks
              /\ \A c \in Checks : check[c].pc \in {"done", "caught"}
              /\ check' = check
       /\ monitor'.cycles > monitor.cycles =>
              /\ check' = LaunchedChecks
              /\ IF monitor.cycles = 0
                 THEN /\ monitor'.cycle.by = "start"
                      /\ monitor.intervalId = NULL
                      /\ monitor'.intervalId = NULL
                      /\ monitor'.starts = monitor.starts + 1
                 ELSE /\ monitor'.cycle.by = "timer"
                      /\ monitor.intervalId # NULL
                      /\ monitor'.starts = monitor.starts
      ]_vars

\* C13 witness: a cycle launched by the timer is in flight.
C13_Witness ==
    /\ monitor.cycles = 2
    /\ monitor.cycle.by = "timer"
    /\ monitor.cycle.pc = "checks"
    /\ monitor.effects = <<"setInterval">>

\* C14: stop() on a monitor that is not running changes nothing: no timer is
\* created or cancelled, the store handle is not closed and the process is
\* not ended; once stop() has taken effect the monitor is not running, so a
\* further stop() would return at its guard, and the handle has been closed
\* once and the process ended once.
C14_StopIsIdempotent ==
    /\ [][(~monitor.running /\ monitor'.stops # monitor.stops) =>
              /\ monitor' = [monitor EXCEPT !.stops = @ + 1]
              /\ OnlyMonitorChanges
         ]_vars
    /\ [](monitor.exited =>
              /\ ~monitor.running
              /\ monitor.intervalId = NULL
              /\ Times(monitor, "close") = 1
              /\ Times(monitor, "exit") = 1)

\* C14 witness: stop() was called twice before start(), and the monitor then
\* started and armed its timer as if it had not been.
C14_Witness ==
    /\ monitor.stops = 2
    /\ monitor.running
    /\ monitor.effects = <<"setInterval">>

\* stop() has taken effect on a running monitor.
Stopped == Times(monitor, "close") > 0

\* C15: once stop() has been called on a running monitor no check cycle is
\* launched and no timer is armed, and the monitor holds no timer and is not
\* running, whether stop() came during the first cycle, before the timer was
\* armed, or later.
C15_NoCycleAfterStop ==
    /\ [][Stopped =>
              /\ monitor'.cycles = monitor.cycles
              /\ Times(monitor', "setInterval") = Times(monitor, "setInterval")
         ]_vars
    /\ [](Stopped => (monitor.intervalId = NULL /\ ~monitor.running))

\* C15 witness: stop() came during the first cycle, before start() had armed
\* the timer.
C15_Witness ==
    /\ Stopped
    /\ monitor.start = "awaiting"
    /\ monitor.cycle.pc = "checks"
    /\ monitor.effects = <<"close", "exit">>

\* C16: when the process has exited, every per-host check of the cycle that
\* was in flight at stop() has reached its outcome, a failed one having saved
\* its incident, performCheck has returned, and the store handle was closed
\* before the exit.
C16_InFlightCycleFinishes ==
    monitor.exited =>
        /\ \A c \in Checks : check[c].pc \in {"idle", "done", "caught"}
        /\ monitor.cycle.pc \in {"none", "done"}
        /\ \E k \in 1..Len(monitor.effects) :
              /\ monitor.effects[k] = "close"
              /\ \A j \in 1..k : monitor.effects[j] # "exit"

\* The checks that returned from their catch clause.
CaughtChecks == {c \in Checks : check[c].pc = "caught"}

\* C17, each step: the step in which an exception is caught changes the
\* state of that host's check only, not the store, not another host's check,
\* not the cycle; the outcome pushed for a check is a failed one when it
\* caught an exception and the probe's own otherwise.
C17_CaughtInsideTheCheck ==
    [][/\ \A c \in Checks :
             (check'[c].pc = "caught" /\ check[c].pc # "caught"
                  /\ monitor'.cycles = monitor.cycles) =>
                 /\ check[c].pc \in {"ping", "trace", "save"}
                 /\ \A d \in Checks \ {c} : check'[d] = check[d]
                 /\ UNCHANGED <<rows, seq, now, ret, saved, monitor>>
       /\ \A c \in Checks :
             (c \in monitor'.cycle.settled /\ c \notin monitor.cycle.settled) =>
                 LET result == monitor'.cycle.results[Len(monitor'.cycle.results)]
                 IN  /\ result.host = ConfigHosts[c]
                     /\ result.success =
                            (c \notin CaughtChecks /\ check[c].pingResult[1].success)
      ]_vars

\* C17, the cycle: a cycle in flight goes on to performCheck's return with
\* every host settled, whichever of its checks caught an exception.
C17_CycleCompletes ==
    (monitor.cycle.pc = "checks")
        ~> (monitor.cycle.pc = "done" /\ monitor.cycle.settled = Checks)

\* C17: per-host isolation: an exception raised while probing, tracing or
\* persisting for one host becomes a failed outcome of that host's check, and
\* neither performCheck nor another host's check is stopped or altered by it.
C17_PerHostIsolation == C17_CaughtInsideTheCheck /\ C17_CycleCompletes

\* C17 witness: in one cycle the save for host A was rejected and the check
\* of host B went on to save its incident; the cycle reported one failed
\* check for each.
C17_Witness ==
    /\ monitor.cycle.pc = "done"
    /\ monitor.cycles = 1
    /\ check[1].pc = "caught"
    /\ check[1].pingResult # Undefined
    /\ check[2].pc = "done"
    /\ Len(rows) = 1
    /\ rows[1].host = "B"
    /\ monitor.cycle.summary = Some([successful |-> 0, failed |-> 2, hosts |-> 2])

\* C19: a cycle launches one check for each entry of the configured host
\* list and starts from no outcomes; its summary is computed when all of them
\* have settled and holds one outcome for each entry, so that the reachable
\* and unreachable counts add up to the number of entries; and performCheck
\* returns from the statistics call whether that call found the storage
\* layer failing or not.
C19_CycleJoinsAllChecks ==
    /\ [][/\ monitor'.cycles > monitor.cycles =>
                 /\ check' = LaunchedChecks
                 /\ monitor'.cycle.results = <<>>
                 /\ monitor'.cycle.settled = {}
          /\ (monitor.cycle.pc = "stats" /\ monitor'.cycle # monitor.cycle) =>
                 /\ monitor'.cycle.pc = "done"
                 /\ monitor'.cycle.stats \in {Some(getStatistics(rows)), Some(ZeroStatistics)}
                 /\ monitor'.cycle.summary = monitor.cycle.summary
                 /\ UNCHANGED <<rows, seq, check>>
         ]_vars
    /\ [](monitor.cycle.pc \in {"stats", "done"} =>
             LET summary == monitor.cycle.summary[1]
                 results == monitor.cycle.results
             IN  /\ \A c \in Checks : check[c].pc \in {"done", "caught"}
                 /\ Len(results) = Len(ConfigHosts)
                 /\ \A c \in Checks :
                       Cardinality({k \in 1..Len(results) :
                                       results[k].host = ConfigHosts[c]}) = 1
                 /\ summary.successful + summary.failed = Len(ConfigHosts)
                 /\ summary.successful =
                        Cardinality({c \in Checks : check[c].pc = "done"
                                         /\ check[c].pingResult[1].success}))

\* C19 witness: a cycle with one reachable and one unreachable host has
\* returned although its statistics call failed on a store that holds rows.
C19_Witness ==
    /\ monitor.cycle.pc = "done"
    /\ monitor.cycle.summary = Some([successful |-> 1, failed |-> 1, hosts |-> 2])
    /\ rows # <<>>
    /\ monitor.cycle.stats = Some(ZeroStatistics)

\* C20: within one host's check the probe's outcome is fixed once
\* pingWithRetries has returned; the query and the updates of the resolution
\* step are made only by a check whose probe succeeded; the trace is awaited
\* only after the probe failed and the save is made only after the trace has
\* returned, with the trace's result in the incident; so no check both
\* resolves incidents and saves one.
C20_OrderWithinCheck ==
    /\ [][\A c \in Checks : Acts(c) =>
             /\ check[c].pc \in {"resolve", "mark", "trace", "save"} =>
                    check'[c].pingResult = check[c].pingResult
             /\ check'[c].pc = "resolve" =>
                    (check[c].pc = "ping" /\ check'[c].pingResult[1].success)
             /\ check[c].pc \in {"resolve", "mark"} => check[c].pingResult[1].success
             /\ check'[c].pc = "trace" =>
                    (check[c].pc = "ping" /\ ~check'[c].pingResult[1].success)
             /\ check'[c].pc = "save" =>
                    /\ check[c].pc = "trace"
                    /\ ~check[c].pingResult[1].success
                    /\ check'[c].incident[1].tracerouteResult # Undefined
             /\ rows' # rows =>
                    IF Len(rows') > Len(rows)
                    THEN /\ check[c].pc = "save"
                         /\ ~check[c].pingResult[1].success
                         /\ check[c].unresolvedIncidents = <<>>
                    ELSE /\ check[c].pc = "mark"
                         /\ check[c].pingResult[1].success
                         /\ check[c].incident = Undefined
         ]_vars
    /\ [](\A c \in Checks :
             /\ check[c].pc \in {"resolve", "mark"} =>
                    (check[c].pingResult[1].success /\ check[c].incident = Undefined)
             /\ check[c].pc \in {"trace", "save"} =>
                    (~check[c].pingResult[1].success /\ check[c].unresolvedIncidents = <<>>)
             /\ (check[c].pc = "done" /\ check[c].unresolvedIncidents # <<>>) =>
                    check[c].pingResult[1].success)

\* C20 witness: a check whose probe succeeded has resolved an incident that
\* an earlier, failed check of its host had saved.
C20_Witness ==
    \E c \in Checks :
        /\ check[c].pc = "done"
        /\ check[c].pingResult[1].success
        /\ check[c].unresolvedIncidents # <<>>
        /\ \A i \in RowsOfHost(ConfigHosts[c]) : ~IsOpen(i)

\* The last call met a failure of the storage layer.
MetFault == "fault" \in DOMAIN ret

\* C18: when the storage layer fails during a call, a read operation returns
\* without raising, with an empty list (the listing queries), nothing
\* (getLatestIncident) or zeroed statistics (getStatistics), whereas
\* saveIncident raises the failure to its caller; in both cases the stored
\* rows and the identifier sequence are as before the call.
C18_StorageFaults ==
    /\ [][("fault" \in DOMAIN ret') => (rows' = rows /\ seq' = seq)]_vars
    /\ [](MetFault =>
             /\ ret.op \in {"getRecentIncidents", "getIncidentsByHost",
                            "getUnresolvedIncidents"} =>
                    (~ret.thrown /\ ret.result = <<>>)
             /\ ret.op = "getLatestIncident" => (~ret.thrown /\ ret.result = NULL)
             /\ ret.op = "getStatistics" =>
                    (~ret.thrown /\ ret.result = [totalIncidents |-> 0,
                                                  unresolvedIncidents |-> 0,
                                                  hostsAffected |-> 0])
             /\ ret.op = "saveIncident" => ret.thrown)

\* C18 witness: on a store of two incidents a failing saveIncident has raised
\* and added no row.
C18_Witness ==
    /\ MetFault
    /\ ret.op = "saveIncident"
    /\ ret.thrown
    /\ Len(rows) = 2
    /\ saved.op = "saveIncident"
    /\ saved.id = rows[2].id

----------------------------------------------------------------------------
(* Properties of the prober, the configuration and the facade *)

\* The attempts of the last pingWithRetries call, in order, and its waits.
AttemptsMade == SelectSeq(ret.run.events, LAMBDA e : e # "wait")

WaitsMade == SelectSeq(ret.run.events, LAMBDA e : e = "wait")

\* C21: for a retry count of 0 or more, pingWithRetries makes at most
\* retries+1 attempts; it stops at the first successful attempt and returns
\* that attempt's result; when all retries+1 attempts fail it returns the
\* result of the last one; a 1000 ms wait follows every failed attempt but
\* the last attempt made, so the waits number one less than the attempts.
C21_RetriesAndWaits ==
    (ret.op = "pingWithRetries" /\ ret.retries >= 0) =>
        LET n == Len(AttemptsMade)
            events == ret.run.events
        IN  /\ n >= 1
            /\ n <= ret.retries + 1
            /\ AttemptsMade = SubSeq(ret.outcomes, 1, n)
            /\ \A k \in 1..(n - 1) : AttemptsMade[k] # "answer"
            /\ AttemptsMade[n] # "answer" => n = ret.retries + 1
            /\ ret.run.result = Some(ping("A", ret.outcomes[n]))
            /\ Len(WaitsMade) = n - 1
            /\ Len(events) = 2 * n - 1
            /\ \A k \in 1..Len(events) : (events[k] = "wait") <=> (k % 2 = 0)

\* C21 witness: three attempts, the last one of them failing in another way
\* than the first, with two waits between them.
C21_Witness ==
    /\ ret.op = "pingWithRetries"
    /\ ret.retries = 2
    /\ ret.run.events = <<"timeout", "wait", "timeout", "wait", "unreachable">>
    /\ ret.run.result = Some(ping("A", "unreachable"))

\* C22: every configuration createConfig returns has its interval within
\* IntervalMin..IntervalMax, its timeout within TimeoutMin..TimeoutMax and
\* its retries within RetriesMin..RetriesMax, whichever of command line,
\* environment and defaults the values come from; and with no host list
\* given the hosts are the default triple.
C22_ConfigIsValid ==
    ret.op = "createConfig" =>
        /\ ret.config.interval \in IntervalMin..IntervalMax
        /\ ret.config.timeout \in TimeoutMin..TimeoutMax
        /\ ret.config.retries \in RetriesMin..RetriesMax
        /\ (ret.args.hosts = Undefined /\ ret.envDefaults.hosts = Undefined)
              => ret.config.hosts = defaultHosts

\* C23: PATCH /incidents/:id/resolve answers 400 when the identifier is not
\* a number; 404, with the store unchanged, when it is a number and no
\* incident has that identifier; and 200 only when an incident with that
\* identifier is stored and is resolved afterwards.
C23_PatchStatusCodes ==
    ret.op = "PATCH" =>
        LET id == parseInt(ret.idText)
            stored == id # NaN /\ \E k \in 1..Len(ret.before) : ret.before[k].id = id[1]
        IN  /\ (ret.status = 400) <=> (id = NaN)
            /\ (ret.status = 404) <=> (id # NaN /\ ~stored)
            /\ (ret.status = 404) => rows = ret.before
            /\ (ret.status = 200) =>
                  /\ stored
                  /\ \E k \in 1..Len(rows) : rows[k].id = id[1] /\ rows[k].resolved = 1

\* The calls of performCheck that have not returned.
InFlightCycles ==
    Len(monitor.earlier) + (IF monitor.cycle.pc \in {"checks", "stats"} THEN 1 ELSE 0)

\* C24: check cycles never overlap: at any moment at most one performCheck
\* is in flight; the timer starts no cycle while the cycle before it has
\* not returned.
C24_CyclesNeverOverlap == InFlightCycles <= 1

\* C25: a step of the check of host H changes only incidents of H: a row it
\* modifies has host H and only turns resolved, a row it adds has host H,
\* it removes none, and once the probe of the check has failed no step of
\* the check modifies an existing row; whatever the other host's check and
\* the facade do in between.
C25_CheckChangesOwnHostOnly ==
    [][\A c \in Checks : Acts(c) =>
          /\ Len(rows') >= Len(rows)
          /\ Len(rows') <= Len(rows) + 1
          /\ \A j \in 1..Len(rows) :
                rows'[j] # rows[j] =>
                    /\ rows[j].host = ConfigHosts[c]
                    /\ rows'[j] = [rows[j] EXCEPT !.resolved = 1]
                    /\ check[c].pingResult[1].success
          /\ \A j \in (Len(rows) + 1)..Len(rows') : rows'[j].host = ConfigHosts[c]
          /\ (check'[c].pingResult # Undefined /\ ~check'[c].pingResult[1].success) =>
                SubSeq(rows', 1, Len(rows)) = rows
      ]_vars

\* C25 witness: the check of one host has resolved an incident of its host
\* while the check of the other host, its probe failed, is on its way to
\* the save, and an incident of the other host is still open.
C25_Witness ==
    \E c, d \in Checks :
        /\ c # d
        /\ check[c].pc = "done"
        /\ check[c].pingResult[1].success
        /\ check[c].unresolvedIncidents # <<>>
        /\ \A i \in RowsOfHost(ConfigHosts[c]) : ~IsOpen(i)
        /\ check[d].pc \in {"trace", "save"}
        /\ \E i \in RowsOfHost(ConfigHosts[d]) : IsOpen(i)

\* Row j is an unresolved incident with 10 or more incidents of its host
\* more recent than it.
OutsideWindow(j) ==
    /\ j \in 1..Len(rows)
    /\ IsOpen(j)
    /\ rows[j].id \notin MayBeInWindow(rows[j].host)

\* C26: an unresolved incident of host H outside the 10 most recent
\* incidents of H stays outside them, is selected by no resolution step and
\* is resolved by no step of the Monitor, however many successful probes of
\* H follow; the only step that resolves it is the markIncidentResolved(id)
\* of the facade.
C26_OutsideWindowStaysOpen ==
    [][\A j \in 1..Len(rows) : OutsideWindow(j) =>
          /\ j <= Len(rows')
          /\ rows'[j].id = rows[j].id
          /\ rows'[j].resolved = 0 => OutsideWindow(j)'
          /\ rows[j].id \notin ListIds(check'[1].unresolvedIncidents)
          /\ rows'[j].resolved # 0 =>
                /\ check' = check
                /\ rows' = UpdateResolved(rows, rows[j].id)
      ]_vars

\* C26 witness: with 11 incidents stored, a successful probe found nothing
\* to resolve and returned although the oldest incident, outside the window,
\* is unresolved.
C26_Witness ==
    /\ check[1].pc = "done"
    /\ check[1].pingResult[1].success
    /\ check[1].unresolvedIncidents = <<>>
    /\ OutsideWindow(1)
    /\ \A j \in 2..Len(rows) : ~IsOpen(j)

\* C27: the numbers getStatistics returns are a consistent snapshot, also
\* when incidents are saved or resolved while its three queries run:
\* unresolvedIncidents <= totalIncidents, hostsAffected <= totalIncidents,
\* and hostsAffected = 0 exactly when totalIncidents = 0.
C27_StatisticsSnapshot ==
    (ret.op = "getStatistics" /\ ret.pc = "returned") =>
        LET s == ret.result[1]
        IN  /\ s.unresolvedIncidents <= s.totalIncidents
            /\ s.hostsAffected <= s.totalIncidents
            /\ (s.hostsAffected = 0) <=> (s.totalIncidents = 0)

\* C28: a signal that arrives once start() has set the running flag, the
\* first cycle included, runs stop(): when the process has ended the
\* running flag is cleared, no timer is armed and the store handle was
\* closed before the exit.
C28_SignalRunsStop ==
    (monitor.exited /\ monitor.starts > 0) =>
        /\ ~monitor.running
        /\ monitor.intervalId = NULL
        /\ Stopped
        /\ Times(monitor, "killed") = 0

\* C29: once stop() has closed the store handle the Monitor issues no store
\* operation: no step saves an incident, queries or marks incidents for a
\* resolution or reads the statistics, so the store, every per-host check
\* and the cycle stay as they were at the close, wherever the checks and the
\* timer stood when stop() was called.
C29_NoStoreOperationAfterClose ==
    [][Stopped =>
          /\ rows' = rows
          /\ seq' = seq
          /\ check' = check
          /\ monitor'.cycle = monitor.cycle
      ]_vars

\* C29 witness: stop() closed the handle during a cycle the timer started,
\* with one host's check about to save its incident and the other's about
\* to query the incidents to resolve.
C29_Witness ==
    /\ Stopped
    /\ monitor.cycle.by = "timer"
    /\ monitor.cycle.pc = "checks"
    /\ \E c, d \in Checks : check[c].pc = "save" /\ check[d].pc = "resolve"

\* C30: the first definition of NetworkMonitor leaves the store as the
\* second does for the same probe and trace outcomes; in particular, when
\* its check of a host has returned after a successful probe, none of the
\* host's 10 most recent incidents is unresolved.
C30_FirstDefinitionResolves ==
    \A c \in Checks :
        (check[c].pc \in {"done", "caught"}
         /\ check[c].pingResult # Undefined
         /\ check[c].pingResult[1].success) =>
            MustBeInWindow(ConfigHosts[c]) \cap OpenIds(ConfigHosts[c]) = {}

====
